---- MODULE Spec2Model ----
(***************************************************************************)
(* A model of agenttools' GitHub publishing path:                          *)
(*   agenttools/github_pr.py   push_tree_via_api, push_branch_via_api      *)
(*   scripts/github_pr.py      main                                        *)
(* One behaviour is one invocation of an entry point against a remote      *)
(* repository that another writer may change while the invocation runs.    *)
(* A dict is a function on its keys; the order in which it enumerates them *)
(* (its insertion order) is drawn where a loop reads it.  A remote branch  *)
(* is the map path -> blob sha of its files.                               *)
(***************************************************************************)
EXTENDS Integers, Sequences, FiniteSets, TLC

\* Paths are 1..MaxPath, numbered in lexicographic order.
MaxPath == 2
\* Writes another client makes to the head branch during one invocation.
MaxOtherWrites == 1

Paths == 1..MaxPath
\* File contents of the local tree and of the base branch.
Contents == {"A", "B"}
\* What the other writer stores; no local file holds it.
OtherContent == "X"
None == <<>>

\* ------------------------------------------------------------ pure helpers

\* hashlib.sha1(b"blob <len>\0" + data): injective on the contents.
git_blob_sha(data) == <<"blob", data>>

b64encode(data) == <<"b64", data>>

\* The remote's decoding of an uploaded "content" field.
b64decode(b) == b[2]

\* The commit a branch with these files points at, and the files of a commit.
CommitOf(tree) == <<"commit", tree>>

TreeOfCommit(sha) == sha[2]

Range(s) == {s[k] : k \in DOMAIN s}

\* Every enumeration order of a finite set.
Orders(S) ==
  {s \in [1..Cardinality(S) -> S] : \A a, b \in DOMAIN s : s[a] = s[b] => a = b}

\* All path -> value maps over a subset of the paths.
MapsTo(V) == UNION {[S -> V] : S \in SUBSET Paths}

\* dict operations: "key in d" and d[key].
Has(d, key) == key \in DOMAIN d

Get(d, key) == d[key]

\* Mutant: only 5xx raises.
raise_for_status_5xx(status) == status >= 500

\* requests.Response.raise_for_status: an exception for 4xx and 5xx.
raise_for_status(status) == status >= 400

VARIABLES
  fn,               \* the entry point invoked
  dry_run,          \* its dry_run argument (the --dry-run flag for main)
  pc,               \* the statement the invocation is at
  localFiles,       \* the working tree: path -> bytes
  baseTree,         \* remote base branch: path -> blob sha
  headExists,       \* whether refs/heads/<head> exists on the remote
  headTree,         \* remote head branch: path -> blob sha
  base_commit_sha,  \* the base ref's commit as read by this invocation
  r_status,         \* the status of the head ref probe, 0 before it
  remote_map,       \* dict path -> sha of the base tree listing
  local_map,        \* dict path -> [sha, bytes] of the directory walk
  adds, updates, deletes,
  i,                \* index of the loop push_tree_via_api is in
  cursor,           \* the path of the name-status line last read
  actions,          \* the (action, path) pairs left of that line
  q,                \* the answer to the content lookup of the current action
  no_push,          \* main's --no-push flag
  rc,               \* main's exit status, None while it runs
  ops,              \* the operations list returned
  sent,             \* the mutating requests issued so far, with their answers
  otherWrites,      \* writes made by the other client
  name_status,      \* the lines git diff --name-status printed, when they
                    \* are given in advance (<<>> when B_Line draws them)
  is_dir,           \* get_git_diff: os.path.isdir(git_dir)
  use_remote,       \* get_git_diff: its use_remote argument
  head_branch,      \* get_git_diff: its head_branch argument, None or <<name>>
  max_bytes,        \* get_git_diff: its max_bytes argument
  diff_returncode,  \* get_git_diff: the exit status of git diff
  diff,             \* get_git_diff: the decoded output, a sequence of characters
  result,           \* the value returned
  exc,              \* the exception raised, None if none
  repo_full_name,   \* create_pull_request: its arguments; a string argument
  head,             \* that may be None is None or <<string>>, and
  title,            \* repo_full_name is the sequence of its parts
  body,
  token,
  draft,
  env_token,        \* os.getenv("GITHUB_TOKEN")
  base,             \* the base branch's name
  repo_url,         \* create_pr_from_git: its repo_url argument, a sequence
                    \* of parts
  pr_body           \* create_pr_from_git: the body it passes on

vars == <<fn, dry_run, pc, localFiles, baseTree, headExists, headTree,
          base_commit_sha, r_status, remote_map, local_map, adds, updates,
          deletes, i, cursor, actions, q, no_push, rc, ops, sent, otherWrites,
          name_status, is_dir, use_remote, head_branch, max_bytes,
          diff_returncode, diff, result, exc, repo_full_name, head, title,
          body, token, draft, env_token, base, repo_url, pr_body>>

remote == <<baseTree, headExists, headTree>>
\* The state of get_git_diff, which the publishers and main's steps leave alone.
diffVars == <<is_dir, use_remote, head_branch, max_bytes, diff_returncode,
              diff, result, exc>>
\* The arguments of create_pull_request.
prArgs == <<repo_full_name, head, title, body, token, draft, env_token, base,
            repo_url, pr_body>>
args == <<fn, dry_run, no_push, localFiles, name_status, diffVars, prArgs>>
plan == <<adds, updates, deletes>>
treeVars == <<remote_map, local_map, adds, updates, deletes, i>>
branchVars == <<cursor, actions, q>>

Shas == {git_blob_sha(c) : c \in Contents}

\* --------------------------------------------------------- the remote API
\* The answers of the hosting service.  Any request may also be answered 500.

ServerError == 500

\* GET git/ref/heads/<head>
HeadRefStatus == IF headExists THEN 200 ELSE 404

\* GET contents/<path>?ref=<head>: the blob sha stored there, None for a 404.
HeadSha(path) ==
  IF headExists /\ path \in DOMAIN headTree THEN headTree[path] ELSE None

ContentStatus(path) == IF HeadSha(path) = None THEN 404 ELSE 200

\* POST git/refs: 422 when the ref exists already.
CreateRefStatus == IF headExists THEN 422 ELSE 201

\* PUT contents/<path>: the sha must be the one stored, and absent for a new file.
PutStatus(path, payload) ==
  IF ~headExists THEN 404
  ELSE IF path \notin DOMAIN headTree
         THEN (IF "sha" \in DOMAIN payload THEN 409 ELSE 201)
  ELSE IF "sha" \notin DOMAIN payload THEN 422
  ELSE IF payload.sha # headTree[path] THEN 409
  ELSE 200

\* DELETE contents/<path>: 404 for a missing file, 409 for a stale sha.
DeleteStatus(path, payload) ==
  IF ~headExists \/ path \notin DOMAIN headTree THEN 404
  ELSE IF payload.sha # headTree[path] THEN 409
  ELSE 200

Answers(status) == {status, ServerError}

\* The head branch after an accepted PUT / DELETE.
TreePut(tree, path, content) ==
  [p \in DOMAIN tree \cup {path} |->
     IF p = path THEN git_blob_sha(b64decode(content)) ELSE tree[p]]

TreeDelete(tree, path) == [p \in DOMAIN tree \ {path} |-> tree[p]]

Token(payload) == IF "sha" \in DOMAIN payload THEN payload.sha ELSE None

\* A mutating request as logged in sent: its json payload, the answer, and
\* the sha the head branch held at that path when it arrived.
Request(method, target, path, payload, status) ==
  [method |-> method, target |-> target, path |-> path, payload |-> payload,
   token |-> Token(payload), status |-> status,
   stored |-> IF target = "contents" THEN HeadSha(path) ELSE None]

Json(status) == <<"json", status>>

\* The statuses the POST is answered with: created, a redirection requests
\* does not follow (it has no Location), a refusal, a server error.
PostAnswers == {201, 302, 422, ServerError}

\* get_git_diff not called.
NoDiff ==
  /\ is_dir = TRUE /\ use_remote = TRUE /\ head_branch = None
  /\ max_bytes = 0 /\ diff_returncode = 0 /\ diff = <<>>
  /\ result = None /\ exc = None

\* create_pull_request not called.
NoPR ==
  /\ repo_full_name = <<>> /\ head = "head" /\ title = None /\ body = None
  /\ token = None /\ draft = FALSE /\ env_token = None
  /\ base = "main" /\ repo_url = <<>> /\ pr_body = None

\* ------------------------------------------------------ push_tree_via_api

\* Paths the walk found that the base tree lacks; walk is local_map's
\* enumeration order.
PlanAdds(walk, lm, rm) ==
  LET Test(path) == ~Has(rm, path) IN SelectSeq(walk, Test)

\* Mutant: the sha comparison dropped.
PlanUpdates_Always(walk, lm, rm) ==
  LET Test(path) == Has(rm, path) IN SelectSeq(walk, Test)

\* Paths in both whose blob sha differs.
PlanUpdates(walk, lm, rm) ==
  LET Test(path) == Has(rm, path) /\ Get(rm, path) # Get(lm, path).sha
  IN SelectSeq(walk, Test)

\* Mutant: the "not in local_map" test dropped.
PlanDeletes_All(listing, lm, rm) == listing

\* Paths of the base tree the walk did not find; listing is remote_map's
\* enumeration order.
PlanDeletes(listing, lm, rm) ==
  LET Test(path) == ~Has(lm, path) IN SelectSeq(listing, Test)

\* Mutant: the sha never attached.
TreePutPayload_NoSha(path, lm, rm) ==
  [message |-> <<"Add/Update", path>>,
   content |-> b64encode(Get(lm, path).bytes), branch |-> "head"]

\* The PUT payload: the sha of the base tree listing when the path is in it.
TreePutPayload(path, lm, rm) ==
  LET payload == [message |-> <<"Add/Update", path>>,
                  content |-> b64encode(Get(lm, path).bytes),
                  branch |-> "head"]
  IN IF Has(rm, path) THEN [sha |-> Get(rm, path)] @@ payload ELSE payload

TreeDeletePayload(path, rm) ==
  [message |-> <<"Delete", path>>, branch |-> "head",
   sha |-> IF Has(rm, path) THEN Get(rm, path) ELSE None]

\* Mutant: dry_run ignored.
Simulated_Never == FALSE

\* "if dry_run": the operation is recorded, not requested.
Simulated == dry_run

\* Mutant: the base tree's sha taken for the base commit's.
CreateRefPayload_TreeSha(sha) ==
  [ref |-> "refs/heads/head", sha |-> <<"tree", TreeOfCommit(sha)>>]

\* The body of POST git/refs.
CreateRefPayload(sha) == [ref |-> "refs/heads/head", sha |-> sha]

\* Where the invocation goes when a loop has nothing (more) to do.
AfterPuts == IF deletes # <<>> THEN "t_delete" ELSE "done"

AfterProbe == IF adds \o updates # <<>> THEN "t_put" ELSE AfterPuts

\* r = requests.get(ref_url); a status other than 200 is a RuntimeError.
T_GetBaseRef ==
  /\ pc = "t_base_ref"
  /\ \E status \in {200, 404, ServerError} :
       IF status # 200
       THEN pc' = "error" /\ UNCHANGED base_commit_sha
       ELSE pc' = "t_tree" /\ base_commit_sha' = CommitOf(baseTree)
  /\ UNCHANGED <<args, remote, r_status, treeVars, branchVars, rc, ops, sent,
                 otherWrites>>

\* The commit, then its tree listed recursively: remote_map.
T_GetTree ==
  /\ pc = "t_tree"
  /\ \E status \in Answers(200) :
       IF raise_for_status(status)
       THEN pc' = "error" /\ UNCHANGED remote_map
       ELSE /\ pc' = "t_walk"
            /\ remote_map' = TreeOfCommit(base_commit_sha)
  /\ UNCHANGED <<args, remote, base_commit_sha, r_status, local_map, plan, i,
                 branchVars, rc, ops, sent, otherWrites>>

\* os.walk: each file read and hashed into local_map.
T_Walk ==
  /\ pc = "t_walk"
  /\ local_map' = [path \in DOMAIN localFiles |->
                     [sha |-> git_blob_sha(localFiles[path]),
                      bytes |-> localFiles[path]]]
  /\ pc' = "t_plan"
  /\ UNCHANGED <<args, remote, base_commit_sha, r_status, remote_map, plan,
                 i, branchVars, rc, ops, sent, otherWrites>>

\* The two planning loops, each over a dict in the order the file system
\* (os.walk) and the remote (the tree listing) enumerated its keys.
T_Plan ==
  /\ pc = "t_plan"
  /\ \E walk \in Orders(DOMAIN local_map), listing \in Orders(DOMAIN remote_map) :
       /\ adds' = PlanAdds(walk, local_map, remote_map)
       /\ updates' = PlanUpdates(walk, local_map, remote_map)
       /\ deletes' = PlanDeletes(listing, local_map, remote_map)
  /\ pc' = "t_probe"
  /\ UNCHANGED <<args, remote, base_commit_sha, r_status, remote_map,
                 local_map, i, branchVars, rc, ops, sent, otherWrites>>

\* The head ref probe: only a 404 is acted on.
T_ProbeHead ==
  /\ pc = "t_probe"
  /\ \E status \in Answers(HeadRefStatus) :
       /\ r_status' = status
       /\ IF status = 404
          THEN IF Simulated
               THEN /\ ops' = Append(ops, [op |-> "create_ref", ref |-> "head",
                                           from |-> base_commit_sha])
                    /\ pc' = AfterProbe
               ELSE pc' = "t_create_ref" /\ UNCHANGED ops
          ELSE pc' = AfterProbe /\ UNCHANGED ops
  /\ UNCHANGED <<args, remote, base_commit_sha, treeVars, branchVars, rc,
                 sent, otherWrites>>

T_CreateRef ==
  /\ pc = "t_create_ref"
  /\ LET payload == CreateRefPayload(base_commit_sha)
     IN \E status \in Answers(CreateRefStatus) :
          /\ sent' = Append(sent, Request("POST", "git/refs", 0, payload, status))
          /\ IF status = 201
             THEN headExists' = TRUE /\ headTree' = TreeOfCommit(payload.sha)
             ELSE UNCHANGED <<headExists, headTree>>
          /\ IF raise_for_status(status)
             THEN pc' = "error" /\ UNCHANGED ops
             ELSE /\ ops' = Append(ops, [op |-> "create_ref", ref |-> "head",
                                         response |-> Json(status)])
                  /\ pc' = AfterProbe
  /\ UNCHANGED <<args, baseTree, base_commit_sha, r_status, treeVars,
                 branchVars, rc, otherWrites>>

\* One iteration of "for path in adds + updates".
T_Put ==
  /\ pc = "t_put"
  /\ LET todo == adds \o updates
         path == todo[i]
         payload == TreePutPayload(path, local_map, remote_map)
         advance == IF i < Len(todo) THEN pc' = pc /\ i' = i + 1
                    ELSE pc' = AfterPuts /\ i' = 1
     IN IF Simulated
        THEN /\ ops' = Append(ops, [op |-> "add_or_update", path |-> path,
                                    payload |-> payload])
             /\ advance
             /\ UNCHANGED <<headTree, sent>>
        ELSE \E status \in Answers(PutStatus(path, payload)) :
               /\ sent' = Append(sent, Request("PUT", "contents", path, payload, status))
               /\ headTree' = IF status \in {200, 201}
                              THEN TreePut(headTree, path, payload.content)
                              ELSE headTree
               /\ IF raise_for_status(status)
                  THEN pc' = "error" /\ UNCHANGED <<ops, i>>
                  ELSE /\ ops' = Append(ops, [op |-> "add_or_update", path |-> path,
                                              response |-> Json(status)])
                       /\ advance
  /\ UNCHANGED <<args, baseTree, headExists, base_commit_sha, r_status,
                 remote_map, local_map, plan, branchVars, rc, otherWrites>>

\* One iteration of "for path in deletes"; any answer but 200 and 204 goes to
\* raise_for_status.
T_Delete ==
  /\ pc = "t_delete"
  /\ LET path == deletes[i]
         payload == TreeDeletePayload(path, remote_map)
         advance == IF i < Len(deletes) THEN pc' = pc /\ i' = i + 1
                    ELSE pc' = "done" /\ i' = 1
     IN IF Simulated
        THEN /\ ops' = Append(ops, [op |-> "delete", path |-> path,
                                    payload |-> payload])
             /\ advance
             /\ UNCHANGED <<headTree, sent>>
        ELSE \E status \in Answers(DeleteStatus(path, payload)) :
               /\ sent' = Append(sent, Request("DELETE", "contents", path, payload, status))
               /\ headTree' = IF status = 200 THEN TreeDelete(headTree, path)
                              ELSE headTree
               /\ IF status \notin {200, 204} /\ raise_for_status(status)
                  THEN pc' = "error" /\ UNCHANGED <<ops, i>>
                  ELSE /\ ops' = Append(ops, [op |-> "delete", path |-> path,
                                              response |-> Json(status)])
                       /\ advance
  /\ UNCHANGED <<args, baseTree, headExists, base_commit_sha, r_status,
                 remote_map, local_map, plan, branchVars, rc, otherWrites>>

\* ---------------------------------------------------- push_branch_via_api
\* A name-status line is its tab-separated parts; a status is its letter and,
\* for R and C, its similarity score.

Scores == {75, 100}

\* The lines git can write about path: one line per changed path, the new
\* path for a rename or a copy.
LinesOf(path) ==
  {<<<<letter>>, path>> : letter \in {"A", "M", "D"}}
    \cup {<<<<"R", score>>, old, path>> : score \in Scores, old \in Paths \ {path}}
    \cup {<<<<"C", 100>>, old, path>> : old \in Paths \ {path}}

\* The path a line is listed under.
Subject(parts) == parts[Len(parts)]

\* Mutant: the halves of a rename swapped.
LineActions_AddFirst(parts) ==
  LET status == parts[1]
  IN IF status[1] = "R"
     THEN (IF Len(parts) >= 3
           THEN <<<<"add", parts[3]>>, <<"delete", parts[2]>>>>
           ELSE <<>>)
     ELSE IF Len(parts) < 2 THEN <<>>
     ELSE IF status = <<"A">> \/ status = <<"M">> THEN <<<<"add", parts[2]>>>>
     ELSE IF status = <<"D">> THEN <<<<"delete", parts[2]>>>>
     ELSE <<>>

\* The (action, path) pairs of one line; none for a line that is skipped.
LineActions(parts) ==
  LET status == parts[1]
  IN IF status[1] = "R"
     THEN (IF Len(parts) >= 3
           THEN <<<<"delete", parts[2]>>, <<"add", parts[3]>>>>
           ELSE <<>>)
     ELSE IF Len(parts) < 2 THEN <<>>
     ELSE IF status = <<"A">> \/ status = <<"M">> THEN <<<<"add", parts[2]>>>>
     ELSE IF status = <<"D">> THEN <<<<"delete", parts[2]>>>>
     ELSE <<>>

\* Mutant: the file assumed to be there.
LocalExists_Always(path) == TRUE

\* os.path.exists(full_path), and the bytes read from it.
LocalExists(path) == path \in DOMAIN localFiles

\* The PUT payload: the sha of the lookup when it answered 200.
BranchPutPayload(path, data, lookup) ==
  LET payload == [message |-> <<"Add/Update", path>>,
                  content |-> b64encode(data), branch |-> "head"]
  IN IF lookup.status = 200 THEN [sha |-> lookup.sha] @@ payload ELSE payload

BranchDeletePayload(path, lookup) ==
  [message |-> <<"Delete", path>>, branch |-> "head", sha |-> lookup.sha]

\* Mutant: the exception swallowed, the loop goes on.
Raise_Swallowed == pc' = "b_line" /\ rc' = rc

\* An exception leaves push_branch_via_api; main catches it and returns 4.
Raise == IF fn = "main" THEN pc' = "exit" /\ rc' = 4
         ELSE pc' = "error" /\ rc' = rc

\* return {"branch_url": ..., "operations": ops}
Return == IF fn = "main" THEN pc' = "m_pr" /\ rc' = rc
          ELSE pc' = "done" /\ rc' = rc

\* Mutant: the status of the base ref lookup not tested.
B_GetBaseRef_Lenient ==
  /\ pc = "b_base_ref"
  /\ \E status \in {200, 404, ServerError} :
       /\ pc' = "b_probe" /\ rc' = rc
       /\ base_commit_sha' = IF status = 200 THEN CommitOf(baseTree) ELSE None
  /\ UNCHANGED <<args, remote, r_status, treeVars, branchVars, ops, sent,
                 otherWrites>>

B_GetBaseRef ==
  /\ pc = "b_base_ref"
  /\ \E status \in {200, 404, ServerError} :
       IF status # 200
       THEN Raise /\ UNCHANGED base_commit_sha
       ELSE pc' = "b_probe" /\ rc' = rc /\ base_commit_sha' = CommitOf(baseTree)
  /\ UNCHANGED <<args, remote, r_status, treeVars, branchVars, ops, sent,
                 otherWrites>>

\* The head ref probe: 404 creates the ref, any other non-200 raises.
B_ProbeHead ==
  /\ pc = "b_probe"
  /\ \E status \in Answers(HeadRefStatus) :
       /\ r_status' = status
       /\ IF status = 404 THEN pc' = "b_create_ref" /\ rc' = rc
          ELSE IF status # 200 /\ raise_for_status(status) THEN Raise
          ELSE pc' = "b_name_status" /\ rc' = rc
  /\ UNCHANGED <<args, remote, base_commit_sha, treeVars, branchVars, ops,
                 sent, otherWrites>>

B_CreateRef ==
  /\ pc = "b_create_ref"
  /\ LET create_ref_payload == CreateRefPayload(base_commit_sha)
     IN \E status \in Answers(CreateRefStatus) :
          /\ sent' = Append(sent, Request("POST", "git/refs", 0,
                                          create_ref_payload, status))
          /\ IF status = 201
             THEN /\ headExists' = TRUE
                  /\ headTree' = TreeOfCommit(create_ref_payload.sha)
             ELSE UNCHANGED <<headExists, headTree>>
          /\ IF raise_for_status(status) THEN Raise
             ELSE pc' = "b_name_status" /\ rc' = rc
  /\ UNCHANGED <<args, baseTree, base_commit_sha, r_status, treeVars,
                 branchVars, ops, otherWrites>>

\* git diff --name-status base..head: a failure is a RuntimeError.
B_NameStatus ==
  /\ pc = "b_name_status"
  /\ \E returncode \in {0, 128} :
       IF returncode # 0 THEN Raise ELSE pc' = "b_line" /\ rc' = rc
  /\ UNCHANGED <<args, remote, base_commit_sha, r_status, treeVars,
                 branchVars, ops, sent, otherWrites>>

\* The next line of the output, or its end.  The lines come in path order.
B_Line ==
  /\ pc = "b_line"
  /\ \/ Return /\ UNCHANGED <<cursor, actions>>
     \/ \E path \in Paths : \E parts \in LinesOf(path) :
          /\ path > cursor
          /\ cursor' = Subject(parts)
          /\ actions' = LineActions(parts)
          /\ pc' = IF LineActions(parts) = <<>> THEN "b_line" ELSE "b_lookup"
          /\ rc' = rc
  /\ UNCHANGED <<args, remote, base_commit_sha, r_status, treeVars, q, ops,
                 sent, otherWrites>>

\* The same loop over lines given in advance: the next line of name_status,
\* the first whose path is beyond the last one read.
B_NextLine ==
  /\ pc = "b_line"
  /\ LET Unread(parts) == Subject(parts) > cursor
         rest == SelectSeq(name_status, Unread)
     IN IF rest = <<>>
        THEN Return /\ UNCHANGED <<cursor, actions>>
        ELSE /\ cursor' = Subject(rest[1])
             /\ actions' = LineActions(rest[1])
             /\ pc' = IF LineActions(rest[1]) = <<>> THEN "b_line" ELSE "b_lookup"
             /\ rc' = rc
  /\ UNCHANGED <<args, remote, base_commit_sha, r_status, treeVars, q, ops,
                 sent, otherWrites>>

\* The first half of an action: the local file check of an add, then the
\* content lookup on the head branch.  A delete whose lookup is not answered
\* 200 is recorded with no response.
B_Lookup ==
  /\ pc = "b_lookup"
  /\ LET action == actions[1][1]
         path == actions[1][2]
     IN IF action = "add" /\ ~LocalExists(path)
        THEN Raise /\ UNCHANGED <<q, ops, actions>>
        ELSE \E status \in Answers(ContentStatus(path)) :
               LET lookup == [status |-> status,
                              sha |-> IF status = 200 THEN HeadSha(path) ELSE None]
               IN IF action = "delete" /\ status # 200
                  THEN /\ ops' = Append(ops, [op |-> "delete", path |-> path,
                                              response |-> None])
                       /\ actions' = Tail(actions)
                       /\ pc' = IF Tail(actions) = <<>> THEN "b_line" ELSE "b_lookup"
                       /\ rc' = rc
                       /\ UNCHANGED q
                  ELSE /\ q' = lookup
                       /\ pc' = "b_write" /\ rc' = rc
                       /\ UNCHANGED <<ops, actions>>
  /\ UNCHANGED <<args, remote, base_commit_sha, r_status, treeVars, cursor,
                 sent, otherWrites>>

\* The second half: requests.delete or requests.put, then raise_for_status.
B_Write ==
  /\ pc = "b_write"
  /\ LET action == actions[1][1]
         path == actions[1][2]
         payload == IF action = "delete" THEN BranchDeletePayload(path, q)
                    ELSE BranchPutPayload(path, localFiles[path], q)
         method == IF action = "delete" THEN "DELETE" ELSE "PUT"
         answer == IF action = "delete" THEN DeleteStatus(path, payload)
                   ELSE PutStatus(path, payload)
     IN \E status \in Answers(answer) :
          /\ sent' = Append(sent, Request(method, "contents", path, payload,
                                          status))
          /\ headTree' = IF status \notin {200, 201} THEN headTree
                         ELSE IF action = "delete" THEN TreeDelete(headTree, path)
                         ELSE TreePut(headTree, path, payload.content)
          /\ IF raise_for_status(status)
             THEN Raise /\ UNCHANGED <<ops, actions, q>>
             ELSE /\ ops' = Append(ops,
                             [op |-> IF action = "delete" THEN "delete"
                                     ELSE "add_or_update",
                              path |-> path, response |-> Json(status)])
                  /\ actions' = Tail(actions)
                  /\ q' = None
                  /\ pc' = IF Tail(actions) = <<>> THEN "b_line" ELSE "b_lookup"
                  /\ rc' = rc
  /\ UNCHANGED <<args, baseTree, headExists, base_commit_sha, r_status,
                 treeVars, cursor, otherWrites>>

\* ------------------------------------------------ scripts/github_pr.py main

\* git rev-parse --verify, then git checkout [-b]; a failure returns 2.
M_Checkout ==
  /\ pc = "m_checkout"
  /\ \E returncode \in {0, 1} :
       IF returncode # 0 THEN pc' = "exit" /\ rc' = 2
       ELSE pc' = "m_commit" /\ rc' = rc
  /\ UNCHANGED <<args, remote, base_commit_sha, r_status, treeVars,
                 branchVars, ops, sent, otherWrites>>

\* git add -A, git status, git commit; a failure returns 3.  Then the push,
\* unless --no-push.
M_Commit ==
  /\ pc = "m_commit"
  /\ \E returncode \in {0, 1} :
       IF returncode # 0 THEN pc' = "exit" /\ rc' = 3
       ELSE pc' = (IF no_push THEN "m_pr" ELSE "b_base_ref") /\ rc' = rc
  /\ UNCHANGED <<args, remote, base_commit_sha, r_status, treeVars,
                 branchVars, ops, sent, otherWrites>>

\* create_pr_from_git: nothing for an empty diff, the composed payload under
\* --dry-run, POST pulls otherwise; main does not catch its exception (an
\* HTTPError, or the decode error of a redirection whose body is no JSON),
\* which ends the script with status 1.  The body, when none is given, is
\* made of the head's name and the diff.
M_CreatePR ==
  /\ pc = "m_pr"
  /\ \E text \in {"", "diff"} :
       IF text = "" \/ dry_run
       THEN pc' = "exit" /\ rc' = 0 /\ UNCHANGED sent
       ELSE \E status \in PostAnswers : \E is_json \in BOOLEAN :
              /\ status = 201 => is_json
              /\ raise_for_status(status) => is_json
              /\ sent' = Append(sent,
                   Request("POST", "pulls", 0,
                           [title |-> IF title = None \/ title = <<"">>
                                      THEN <<"Automated PR: ", head, " -> ", base>>
                                      ELSE title,
                            head |-> head, base |-> base,
                            body |-> IF body = None \/ body = <<"">>
                                     THEN <<<<"Automated PR from branch ", head>>,
                                            <<"Diff:", text>>>>
                                     ELSE body,
                            draft |-> FALSE],
                           status))
              /\ pc' = "exit"
              /\ rc' = IF raise_for_status(status) \/ ~is_json THEN 1 ELSE 0
  /\ UNCHANGED <<args, remote, base_commit_sha, r_status, treeVars,
                 branchVars, ops, otherWrites>>

\* ------------------------------------------------------- the other writer
\* Another client of the remote commits to the head branch, to a file the
\* invocation is about to write or delete: for push_tree_via_api a path its
\* loops have not reached yet, for push_branch_via_api the path it has just
\* looked up.  (A change to any other file, or an earlier one, is a different
\* initial head branch.)

Pending ==
  CASE pc = "t_put" ->
         {(adds \o updates)[k] : k \in i..Len(adds \o updates)} \cup Range(deletes)
    [] pc = "t_delete" -> {deletes[k] : k \in i..Len(deletes)}
    [] pc = "b_write" -> {actions[1][2]}
    [] OTHER -> {}

OtherWrite ==
  /\ ~dry_run /\ headExists /\ otherWrites < MaxOtherWrites
  /\ \E path \in Pending :
       headTree' = TreePut(headTree, path, b64encode(OtherContent))
  /\ otherWrites' = otherWrites + 1
  /\ UNCHANGED <<args, pc, baseTree, headExists, base_commit_sha, r_status,
                 treeVars, branchVars, rc, ops, sent>>

OtherDelete ==
  /\ ~dry_run /\ headExists /\ otherWrites < MaxOtherWrites
  /\ \E path \in Pending \cap DOMAIN headTree :
       headTree' = TreeDelete(headTree, path)
  /\ otherWrites' = otherWrites + 1
  /\ UNCHANGED <<args, pc, baseTree, headExists, base_commit_sha, r_status,
                 treeVars, branchVars, rc, ops, sent>>

\* ------------------------------------------------------------ the system

InitTree ==
  /\ fn = "push_tree_via_api"
  /\ dry_run \in BOOLEAN
  /\ pc = "t_base_ref"
  /\ localFiles \in MapsTo(Contents)
  /\ baseTree \in MapsTo(Shas)
  /\ headExists \in BOOLEAN
  /\ headTree \in (IF headExists THEN MapsTo(Shas) ELSE {<<>>})
  /\ base_commit_sha = None /\ r_status = 0
  /\ remote_map = <<>> /\ local_map = <<>>
  /\ adds = <<>> /\ updates = <<>> /\ deletes = <<>> /\ i = 1
  /\ cursor = 0 /\ actions = <<>> /\ q = None
  /\ no_push = FALSE /\ rc = None
  /\ ops = <<>> /\ sent = <<>> /\ otherWrites = 0
  /\ name_status = <<>>
  /\ NoDiff
  /\ NoPR

\* push_branch_via_api reads the base branch only for its commit, so the
\* files of the base branch matter only when the head ref is created from it;
\* it compares no file contents, so every local file holds the same bytes.
Environment ==
  /\ localFiles \in MapsTo({"A"})
  /\ headExists \in BOOLEAN
  /\ baseTree \in (IF headExists THEN {<<>>} ELSE MapsTo(Shas))
  /\ headTree \in (IF headExists THEN MapsTo(Shas) ELSE {<<>>})
  /\ base_commit_sha = None /\ r_status = 0
  /\ remote_map = <<>> /\ local_map = <<>>
  /\ adds = <<>> /\ updates = <<>> /\ deletes = <<>> /\ i = 1
  /\ cursor = 0 /\ actions = <<>> /\ q = None
  /\ rc = None
  /\ ops = <<>> /\ sent = <<>>
  /\ otherWrites = 0

InitBranch ==
  /\ fn = "push_branch_via_api"
  /\ dry_run = FALSE /\ no_push = FALSE
  /\ pc = "b_base_ref"
  /\ Environment
  /\ name_status = <<>>
  /\ NoDiff
  /\ NoPR

InitMain ==
  /\ fn = "main"
  /\ dry_run \in BOOLEAN /\ no_push \in BOOLEAN
  /\ pc = "m_checkout"
  /\ Environment
  /\ name_status = <<>>
  /\ NoDiff
  /\ NoPR

\* One invocation of a publisher, with the other writer.
Init == InitTree \/ InitBranch

Next ==
  \/ T_GetBaseRef \/ T_GetTree \/ T_Walk \/ T_Plan \/ T_ProbeHead
  \/ T_CreateRef \/ T_Put \/ T_Delete
  \/ B_GetBaseRef \/ B_ProbeHead \/ B_CreateRef \/ B_NameStatus \/ B_Line
  \/ B_Lookup \/ B_Write
  \/ OtherWrite \/ OtherDelete

Spec == Init /\ [][Next]_vars

\* One run of the script.
NextMain ==
  \/ M_Checkout \/ M_Commit \/ M_CreatePR
  \/ B_GetBaseRef \/ B_ProbeHead \/ B_CreateRef \/ B_NameStatus \/ B_Line
  \/ B_Lookup \/ B_Write

SpecMain == InitMain /\ [][NextMain]_vars

\* The outputs of git diff --name-status over the paths 1..n: a line or none
\* for each path, in path order.
RECURSIVE Outputs(_)
Outputs(n) ==
  IF n = 0 THEN {<<>>}
  ELSE Outputs(n - 1)
         \cup {Append(output, parts) :
                 output \in Outputs(n - 1), parts \in LinesOf(n)}

\* push_branch_via_api over a given name-status output.  The base branch's
\* files do not matter to it and the head branch holds files of one content.
InitLines ==
  /\ fn = "push_branch_via_api"
  /\ dry_run = FALSE /\ no_push = FALSE
  /\ pc = "b_base_ref"
  /\ localFiles \in MapsTo({"A"})
  /\ headExists \in BOOLEAN
  /\ baseTree = <<>>
  /\ headTree \in (IF headExists THEN MapsTo({git_blob_sha("A")}) ELSE {<<>>})
  /\ base_commit_sha = None /\ r_status = 0
  /\ remote_map = <<>> /\ local_map = <<>>
  /\ adds = <<>> /\ updates = <<>> /\ deletes = <<>> /\ i = 1
  /\ cursor = 0 /\ actions = <<>> /\ q = None
  /\ rc = None
  /\ ops = <<>> /\ sent = <<>>
  /\ otherWrites = 0
  /\ name_status \in Outputs(MaxPath)
  /\ NoDiff
  /\ NoPR

NextLines ==
  \/ B_GetBaseRef \/ B_ProbeHead \/ B_CreateRef \/ B_NameStatus
  \/ B_NextLine \/ B_Lookup \/ B_Write

SpecLines == InitLines /\ [][NextLines]_vars

\* ------------------------------------------------------------ get_git_diff
\* Text is a sequence of characters, its UTF-8 encoding a sequence of bytes:
\* byte j of character c is <<c, j>>.

MaxLen == 2

MaxBytes == 3

\* Two ASCII characters, one of them white space, and a two-byte one.
Chars == {"a", " ", "U+00E9"}

\* The length of a character's UTF-8 encoding.
Width(c) == IF c = "U+00E9" THEN 2 ELSE 1

Texts == UNION {[1..n -> Chars] : n \in 0..MaxLen}

RECURSIVE encode(_)
encode(text) ==
  IF text = <<>> THEN <<>>
  ELSE [j \in 1..Width(Head(text)) |-> <<Head(text), j>>] \o encode(Tail(text))

\* bytes.decode("utf-8", errors="ignore"): the bytes that do not make up a
\* whole character are dropped.
RECURSIVE decode_ignore(_)
decode_ignore(bytes) ==
  IF bytes = <<>> THEN <<>>
  ELSE LET c == bytes[1][1]
           whole == /\ bytes[1][2] = 1
                    /\ Len(bytes) >= Width(c)
                    /\ \A j \in 1..Width(c) : bytes[j] = <<c, j>>
       IN IF whole
          THEN <<c>> \o decode_ignore(SubSeq(bytes, Width(c) + 1, Len(bytes)))
          ELSE decode_ignore(Tail(bytes))

\* f"\n\n[Diff truncated: original size {len(diff)} chars]\n"
Note(text) == <<"Diff truncated: original size", Len(text), "chars">>

\* The text get_git_diff returns for the output text: the text itself, or
\* what its first max bytes decode to, and the note.
Truncated(text, max) ==
  IF Len(encode(text)) > max
  THEN [text |-> decode_ignore(SubSeq(encode(text), 1, max)),
        note |-> Note(text)]
  ELSE [text |-> text, note |-> None]

\* The state of the publishers and of main, which get_git_diff leaves alone.
pushVars == <<fn, dry_run, no_push, localFiles, name_status, remote,
              base_commit_sha, r_status, treeVars, branchVars, rc, ops, sent,
              otherWrites, prArgs>>

\* if not os.path.isdir(git_dir): raise ValueError
G_IsDir ==
  /\ pc = "g_isdir"
  /\ IF ~is_dir
     THEN pc' = "error" /\ exc' = "ValueError"
     ELSE /\ pc' = IF use_remote THEN "g_fetch"
                   ELSE IF head_branch = None THEN "g_rev_parse" ELSE "g_diff"
          /\ exc' = exc
  /\ UNCHANGED <<pushVars, is_dir, use_remote, head_branch, max_bytes,
                 diff_returncode, diff, result>>

\* git fetch --all; its failure is a RuntimeError.
G_Fetch ==
  /\ pc = "g_fetch"
  /\ \E code \in {0, 128} :
       IF code # 0
       THEN pc' = "error" /\ exc' = "RuntimeError"
       ELSE /\ pc' = IF head_branch = None THEN "g_rev_parse" ELSE "g_diff"
            /\ exc' = exc
  /\ UNCHANGED <<pushVars, is_dir, use_remote, head_branch, max_bytes,
                 diff_returncode, diff, result>>

\* git rev-parse --abbrev-ref HEAD when no head branch is given.
G_RevParse ==
  /\ pc = "g_rev_parse"
  /\ \E code \in {0, 128} :
       IF code # 0
       THEN pc' = "error" /\ exc' = "RuntimeError" /\ UNCHANGED head_branch
       ELSE pc' = "g_diff" /\ exc' = exc /\ head_branch' = <<"HEAD">>
  /\ UNCHANGED <<pushVars, is_dir, use_remote, max_bytes, diff_returncode,
                 diff, result>>

\* subprocess.run(diff_cmd, check=True): the output of a run that exits 0;
\* for any other exit status the CalledProcessError is caught and its
\* stdout, or '' when there is none, taken for the diff.  git writes
\* nothing to stdout when it fails (128).
G_Diff ==
  /\ pc = "g_diff"
  /\ \E code \in {0, 1, 128} : \E stdout \in Texts :
       /\ code = 128 => stdout = <<>>
       /\ diff_returncode' = code
       /\ diff' = IF code = 0 THEN stdout
                  ELSE IF stdout # <<>> THEN stdout ELSE <<>>
  /\ pc' = "g_truncate"
  /\ UNCHANGED <<pushVars, is_dir, use_remote, head_branch, max_bytes,
                 result, exc>>

\* The truncation and the return.
G_Truncate ==
  /\ pc = "g_truncate"
  /\ result' = Truncated(diff, max_bytes)
  /\ pc' = IF fn = "create_pr_from_git" THEN "f_strip" ELSE "done"
  /\ UNCHANGED <<pushVars, is_dir, use_remote, head_branch, max_bytes,
                 diff_returncode, diff, exc>>

\* No publisher runs.
NoPush ==
  /\ no_push = FALSE
  /\ localFiles = <<>> /\ baseTree = <<>>
  /\ headExists = FALSE /\ headTree = <<>>
  /\ base_commit_sha = None /\ r_status = 0
  /\ remote_map = <<>> /\ local_map = <<>>
  /\ adds = <<>> /\ updates = <<>> /\ deletes = <<>> /\ i = 1
  /\ cursor = 0 /\ actions = <<>> /\ q = None
  /\ rc = None
  /\ ops = <<>> /\ sent = <<>>
  /\ otherWrites = 0
  /\ name_status = <<>>

InitDiff ==
  /\ fn = "get_git_diff"
  /\ pc = "g_isdir"
  /\ dry_run = FALSE
  /\ NoPush
  /\ NoPR
  /\ is_dir \in BOOLEAN /\ use_remote \in BOOLEAN
  /\ head_branch \in {None, <<"head">>}
  /\ max_bytes \in 0..MaxBytes
  /\ diff_returncode = 0 /\ diff = <<>>
  /\ result = None /\ exc = None

NextDiff == G_IsDir \/ G_Fetch \/ G_RevParse \/ G_Diff \/ G_Truncate

SpecDiff == InitDiff /\ [][NextDiff]_vars

\* ----------------------------------------------------- create_pull_request

\* Python truth of an optional string: None and '' are false.
Falsy(x) == x = None \/ x = <<"">>

\* a or b
Or(a, b) == IF Falsy(a) THEN b ELSE a

\* "/" in repo_full_name
HasSlash(name) == \E n \in DOMAIN name : name[n] = "/"

\* Mutant: the token demanded of a dry run too.
MissingToken_Strict(tok, dry) == Falsy(tok)

\* if not token and not dry_run
MissingToken(tok, dry) == Falsy(tok) /\ ~dry

\* Mutant: head and base swapped in the synthesized title.
pr_title_Swapped == Or(title, <<"Automated PR: ", base, " -> ", head>>)

\* pr_title = title or f"Automated PR: {head} -> {base}"
pr_title == Or(title, <<"Automated PR: ", head, " -> ", base>>)

PRPayload ==
  [title |-> pr_title, head |-> head, base |-> base,
   body |-> Or(IF fn = "create_pr_from_git" THEN pr_body ELSE body, <<"">>),
   draft |-> draft]

\* f"https://github.com/{repo_full_name}/tree/{head}"
branch_url == <<"https://github.com/", repo_full_name, "/tree/", head>>

\* What create_pull_request leaves alone.
restVars == <<fn, dry_run, no_push, localFiles, name_status, remote,
              base_commit_sha, r_status, treeVars, branchVars, rc, ops,
              otherWrites, prArgs, is_dir, use_remote, head_branch, max_bytes,
              diff_returncode, diff>>

\* The checks of the arguments, the payload, and the return of a dry run.
P_Compose ==
  /\ pc = "p_compose"
  /\ IF ~HasSlash(repo_full_name) \/ MissingToken(Or(token, env_token), dry_run)
     THEN pc' = "error" /\ exc' = "ValueError" /\ UNCHANGED result
     ELSE IF dry_run
     THEN /\ result' = [payload |-> PRPayload, url |-> None, pr_url |-> None,
                        branch_url |-> branch_url, response |-> None]
          /\ pc' = "done" /\ exc' = exc
     ELSE pc' = "p_post" /\ UNCHANGED <<result, exc>>
  /\ UNCHANGED <<restVars, sent>>

\* requests.post(post_url, data=json.dumps(payload)); raise_for_status is
\* turned into requests.HTTPError.  resp.json() is the created pull request
\* for a 201; the body of a redirection is a JSON object without html_url,
\* or no JSON at all.
P_Post ==
  /\ pc = "p_post"
  /\ \E status \in PostAnswers : \E is_json \in BOOLEAN :
       /\ status = 201 => is_json
       /\ raise_for_status(status) => is_json
       /\ sent' = Append(sent, Request("POST", "pulls", 0, PRPayload, status))
       /\ IF raise_for_status(status)
          THEN pc' = "error" /\ exc' = "HTTPError" /\ UNCHANGED result
          ELSE IF ~is_json
          THEN pc' = "error" /\ exc' = "JSONDecodeError" /\ UNCHANGED result
          ELSE /\ result' = [payload |-> PRPayload,
                             url |-> IF status = 201 THEN <<"html_url">>
                                     ELSE None,
                             pr_url |-> IF status = 201 THEN <<"html_url">>
                                        ELSE None,
                             branch_url |-> branch_url,
                             response |-> Json(status)]
               /\ pc' = "done" /\ exc' = exc
  /\ UNCHANGED restVars

InitPR ==
  /\ fn = "create_pull_request"
  /\ pc = "p_compose"
  /\ dry_run \in BOOLEAN
  /\ NoPush
  /\ NoDiff
  /\ repo_full_name \in {<<"owner", "/", "repo">>, <<"o", "/", "r">>, <<"repo">>}
  /\ head \in {"issue_1", "feature"}
  /\ title \in {None, <<"">>, <<"T">>}
  /\ body \in {None, <<"B">>}
  /\ token \in {None, <<"arg-token">>}
  /\ env_token \in {None, <<"env-token">>}
  /\ draft \in BOOLEAN
  /\ base \in {"main", "develop"}
  /\ repo_url = <<>> /\ pr_body = None

NextPR == P_Compose \/ P_Post

SpecPR == InitPR /\ [][NextPR]_vars

\* --------------------------------------------------- parse_repo_full_name
\* A URL is the sequence of its parts: "https://", "http://", "git@", ":",
\* "/", ".", ".git", host names and plain names.

\* The parts made of [\w.-] characters only.
WordLike(part) == part \notin {"https://", "http://", "git@", ":", "/"}

\* The parts without a "/" character.
NoSlash(part) == part \notin {"https://", "http://", "/"}

\* The parts without a "." character.
NoDot(part) == part \notin {".", ".git", "github.com", "gitlab.com"}

\* re.match(r"^[\w.-]+\/[\w.-]+$", repo_url)
MatchOwnerRepo(url) ==
  \E k \in 2..(Len(url) - 1) :
    /\ url[k] = "/"
    /\ \A n \in DOMAIN url \ {k} : WordLike(url[n])

\* (?:https?://github.com/|git@github.com:)
UrlPrefixes ==
  {<<"https://", "github.com", "/">>, <<"http://", "github.com", "/">>,
   <<"git@", "github.com", ":">>}

\* ([^/]+/[^/.]+)(?:\.git)?$ over what follows the prefix: the group, or
\* None when there is no match.  A ".git" at the end cannot be part of the
\* group, which takes no "." after the "/".
MatchGroup(rest) ==
  LET group == IF rest # <<>> /\ rest[Len(rest)] = ".git"
               THEN SubSeq(rest, 1, Len(rest) - 1) ELSE rest
  IN IF \E k \in 2..(Len(group) - 1) :
          /\ group[k] = "/"
          /\ \A n \in 1..(k - 1) : NoSlash(group[n])
          /\ \A n \in (k + 1)..Len(group) : NoSlash(group[n]) /\ NoDot(group[n])
     THEN group ELSE None

\* parse_repo_full_name(repo_url): the name returned, or the ValueError.
parse_repo_full_name(url) ==
  IF url = <<>> THEN [raised |-> TRUE]
  ELSE IF MatchOwnerRepo(url) THEN [raised |-> FALSE, value |-> url]
  ELSE IF /\ Len(url) > 3
          /\ SubSeq(url, 1, 3) \in UrlPrefixes
          /\ MatchGroup(SubSeq(url, 4, Len(url))) # None
  THEN [raised |-> FALSE, value |-> MatchGroup(SubSeq(url, 4, Len(url)))]
  ELSE [raised |-> TRUE]

Hosts == {"github.com", "gitlab.com"}

Owners == {<<"owner">>, <<"o">>}

Repos == {<<"repo">>, <<"r">>, <<"my", ".", "repo">>}

\* The three shapes of a repository reference.
OwnerRepo(owner, repo) == owner \o <<"/">> \o repo

HttpsUrl(host, owner, repo, git) ==
  <<"https://", host, "/">> \o OwnerRepo(owner, repo)
    \o (IF git THEN <<".git">> ELSE <<>>)

SshUrl(host, owner, repo, git) ==
  <<"git@", host, ":">> \o OwnerRepo(owner, repo)
    \o (IF git THEN <<".git">> ELSE <<>>)

\* Inputs of none of the shapes.
NoShape ==
  {<<"not-a-valid-url">>, <<"https://", "github.com", "/", "owner">>,
   <<"owner", "/", "repo", "/", "x">>}

Urls ==
  {<<>>} \cup NoShape
    \cup {OwnerRepo(owner, repo) : owner \in Owners, repo \in Repos}
    \cup {HttpsUrl(host, owner, repo, git) :
            host \in Hosts, owner \in Owners, repo \in Repos, git \in BOOLEAN}
    \cup {SshUrl(host, owner, repo, git) :
            host \in Hosts, owner \in Owners, repo \in Repos, git \in BOOLEAN}

\* One call of parse_repo_full_name.
R_Parse ==
  /\ pc = "r_parse"
  /\ LET parsed == parse_repo_full_name(repo_url)
     IN IF parsed.raised
        THEN pc' = "error" /\ exc' = "ValueError" /\ UNCHANGED repo_full_name
        ELSE pc' = "done" /\ exc' = exc /\ repo_full_name' = parsed.value
  /\ UNCHANGED <<fn, dry_run, no_push, localFiles, name_status, remote,
                 base_commit_sha, r_status, treeVars, branchVars, rc, ops,
                 sent, otherWrites, is_dir, use_remote, head_branch,
                 max_bytes, diff_returncode, diff, result, head, title, body,
                 token, draft, env_token, base, repo_url, pr_body>>

InitParse ==
  /\ fn = "parse_repo_full_name"
  /\ pc = "r_parse"
  /\ dry_run = FALSE
  /\ NoPush
  /\ NoDiff
  /\ repo_full_name = <<>> /\ head = "head" /\ title = None /\ body = None
  /\ token = None /\ draft = FALSE /\ env_token = None
  /\ base = "main" /\ pr_body = None
  /\ repo_url \in Urls

NextParse == R_Parse

SpecParse == InitParse /\ [][NextParse]_vars

\* ------------------------------------------------------ create_pr_from_git

\* get_git_diff's max_bytes when the caller gives none.
DefaultMaxBytes == 200000

\* The characters of the diff the synthesized body quotes.
BodyChars == 8000

\* "No changes detected; no PR necessary."
NoChanges == <<"No changes detected; no PR necessary.">>

\* Mutant: only the empty diff taken for no change.
IsBlank_EmptyOnly(returned) == returned.note = None /\ returned.text = <<>>

\* not diff.strip(), of the text get_git_diff returned: the truncation note
\* is not white space.
IsBlank(returned) ==
  /\ returned.note = None
  /\ \A n \in DOMAIN returned.text : returned.text[n] = " "

\* diff[:count]
Prefix(text, count) ==
  SubSeq(text, 1, IF Len(text) < count THEN Len(text) ELSE count)

\* f"Automated PR from branch {head}\n\nDiff:\n```\n{diff[:8000]}\n```", the
\* sequence of its two parts.
AutoBody(returned) ==
  <<<<"Automated PR from branch ", head>>,
    <<"Diff:", Prefix(returned.text
                        \o (IF returned.note = None THEN <<>>
                            ELSE returned.note),
                      BodyChars)>>>>

\* What follows get_git_diff's return: the test of the diff, the parsing of
\* repo_url, the body, and the call of create_pull_request.
F_Strip ==
  /\ pc = "f_strip"
  /\ IF IsBlank(result)
     THEN /\ result' = NoChanges /\ pc' = "done"
          /\ UNCHANGED <<exc, repo_full_name, pr_body>>
     ELSE LET parsed == parse_repo_full_name(repo_url)
          IN IF parsed.raised
             THEN /\ pc' = "error" /\ exc' = "ValueError"
                  /\ UNCHANGED <<result, repo_full_name, pr_body>>
             ELSE /\ repo_full_name' = parsed.value
                  /\ pr_body' = Or(body, AutoBody(result))
                  /\ pc' = "p_compose"
                  /\ UNCHANGED <<result, exc>>
  /\ UNCHANGED <<fn, dry_run, no_push, localFiles, name_status, remote,
                 base_commit_sha, r_status, treeVars, branchVars, rc, ops,
                 sent, otherWrites, is_dir, use_remote, head_branch,
                 max_bytes, diff_returncode, diff, head, title, body, token,
                 draft, env_token, base, repo_url>>

InitFromGit ==
  /\ fn = "create_pr_from_git"
  /\ pc = "g_isdir"
  /\ dry_run \in BOOLEAN
  /\ NoPush
  /\ is_dir \in BOOLEAN /\ use_remote \in BOOLEAN
  /\ head \in {"issue_1", "feature"}
  /\ head_branch = <<head>>
  /\ max_bytes = DefaultMaxBytes
  /\ diff_returncode = 0 /\ diff = <<>>
  /\ result = None /\ exc = None
  /\ repo_url \in {OwnerRepo(<<"owner">>, <<"repo">>),
                   HttpsUrl("github.com", <<"owner">>, <<"repo">>, TRUE),
                   HttpsUrl("gitlab.com", <<"owner">>, <<"repo">>, TRUE),
                   <<"not-a-valid-url">>}
  /\ repo_full_name = <<>> /\ pr_body = None
  /\ title \in {None, <<"T">>}
  /\ body \in {None, <<"B">>}
  /\ token \in {None, <<"arg-token">>}
  /\ env_token = None
  /\ draft = FALSE
  /\ base = "main"

NextFromGit ==
  G_IsDir \/ G_Fetch \/ G_Diff \/ G_Truncate \/ F_Strip \/ P_Compose \/ P_Post

SpecFromGit == InitFromGit /\ [][NextFromGit]_vars

\* ================================================================ claims

IsTree == fn = "push_tree_via_api"

\* push_tree_via_api has run its planning loops.
Planned == IsTree /\ pc \in {"t_probe", "t_create_ref", "t_put", "t_delete", "done"}

\* local_map as a path -> hash map.
LocalShas == [path \in DOMAIN local_map |-> local_map[path].sha]

Planned3 == Range(adds) \cup Range(updates) \cup Range(deletes)

\* C1: the planned operations partition the paths: add iff only local, update
\* iff in both with different hashes, delete iff only remote, nothing iff in
\* both with equal hashes; no path is planned twice.
C1_PlanPartitionsPaths ==
  Planned =>
    /\ \A path \in Paths :
         LET inL == path \in DOMAIN local_map
             inR == path \in DOMAIN remote_map
         IN /\ path \in Range(adds) <=> (inL /\ ~inR)
            /\ path \in Range(updates)
                 <=> (inL /\ inR /\ LocalShas[path] # remote_map[path])
            /\ path \in Range(deletes) <=> (inR /\ ~inL)
            /\ (inL \/ inR) =>
                 (path \notin Planned3
                    <=> (inL /\ inR /\ LocalShas[path] = remote_map[path]))
    /\ Len(adds) + Len(updates) + Len(deletes) = Cardinality(Planned3)

\* An add and a delete planned, and no update (the shape of the test's trees).
C1_Witness ==
  Planned /\ pc = "t_probe" /\ adds # <<>> /\ deletes # <<>> /\ updates = <<>>

\* C2: after a live push_tree_via_api run that completes, the head branch
\* holds exactly the local path -> hash map, whatever it held before (the
\* head ref probe answered, 200 or 404).
C2_RoundTrip ==
  (IsTree /\ ~dry_run /\ pc = "done" /\ r_status # ServerError) =>
    /\ headExists
    /\ headTree = [path \in DOMAIN localFiles |-> git_blob_sha(localFiles[path])]

\* C3: when the local map equals the base map nothing is planned, and the
\* operations returned are empty but for the head ref's creation.
C3_EqualMapsPlanNothing ==
  (Planned /\ LocalShas = remote_map) =>
    /\ adds = <<>> /\ updates = <<>> /\ deletes = <<>>
    /\ pc = "done" => \A k \in DOMAIN ops : ops[k].op = "create_ref"
    /\ (pc = "done" /\ r_status = 200) => ops = <<>>

\* A run over equal, non-empty maps against an existing head ref returned
\* no operation.
C3_Witness ==
  /\ IsTree /\ pc = "done" /\ r_status = 200
  /\ DOMAIN local_map # {} /\ LocalShas = remote_map /\ ops = <<>>

\* What a run over these trees is to record, in either mode: (kind, path)
\* pairs, the head ref's creation as <<"create_ref", 0>>.
ExpectedPairs ==
  {<<"add_or_update", path>> :
     path \in {x \in DOMAIN localFiles :
                 x \notin DOMAIN baseTree
                   \/ baseTree[x] # git_blob_sha(localFiles[x])}}
    \cup {<<"delete", path>> : path \in DOMAIN baseTree \ DOMAIN localFiles}
    \cup (IF r_status = 404 THEN {<<"create_ref", 0>>} ELSE {})

ExpectedPayload(kind, path) ==
  IF kind = "delete"
  THEN [message |-> <<"Delete", path>>, branch |-> "head", sha |-> baseTree[path]]
  ELSE IF path \in DOMAIN baseTree
  THEN [message |-> <<"Add/Update", path>>, branch |-> "head",
        content |-> b64encode(localFiles[path]), sha |-> baseTree[path]]
  ELSE [message |-> <<"Add/Update", path>>, branch |-> "head",
        content |-> b64encode(localFiles[path])]

OpPairs ==
  {<<ops[k].op, IF ops[k].op = "create_ref" THEN 0 ELSE ops[k].path>> :
     k \in DOMAIN ops}

KindOf(method) == IF method = "DELETE" THEN "delete" ELSE "add_or_update"

\* C4: a completed run records the same (kind, path) pairs under dry_run as
\* live, and the payload a dry run records for a path is the payload a live
\* run submits for it: both are the same function of the trees and of the
\* head ref probe's answer.
C4_DryRunLiveParity ==
  (IsTree /\ pc = "done") =>
    /\ OpPairs = ExpectedPairs
    /\ dry_run =>
         \A k \in DOMAIN ops :
           ops[k].op # "create_ref" =>
             ops[k].payload = ExpectedPayload(ops[k].op, ops[k].path)
    /\ ~dry_run =>
         /\ \A k \in DOMAIN sent :
              sent[k].target = "contents" =>
                sent[k].payload = ExpectedPayload(KindOf(sent[k].method),
                                                  sent[k].path)
         /\ {<<KindOf(sent[k].method), sent[k].path>> :
               k \in {x \in DOMAIN sent : sent[x].target = "contents"}}
              = OpPairs \ {<<"create_ref", 0>>}

\* A live run that created the head ref, wrote a file and deleted another.
C4_Witness ==
  /\ IsTree /\ ~dry_run /\ pc = "done"
  /\ \E a, b, c \in DOMAIN sent :
       /\ sent[a].method = "POST" /\ sent[b].method = "PUT"
       /\ sent[c].method = "DELETE"

\* C5: under dry_run push_tree_via_api issues no mutating request and the
\* remote refs and branches stay as they were.
C5_DryRunIsReadOnly ==
  [][(IsTree /\ dry_run) => (sent' = <<>> /\ remote' = remote)]_vars

\* A dry run that planned the head ref's creation and an operation completed.
C5_Witness ==
  /\ IsTree /\ dry_run /\ pc = "done" /\ Len(ops) >= 2
  /\ ops[1].op = "create_ref" /\ sent = <<>> /\ ~headExists

\* C6: a run of main with --dry-run issues no mutating request.
C6_MainDryRunReadOnly == (fn = "main" /\ dry_run) => sent = <<>>

\* C7: a ref is created only by a live run whose probe answered 404, at the
\* base commit read in that run; no other ref request is issued; a dry run
\* records the creation instead.
C7_HeadRefHandling ==
  /\ \A k \in DOMAIN sent :
       sent[k].target = "git/refs" =>
         /\ k = 1 /\ sent[k].method = "POST"
         /\ r_status = 404 /\ ~dry_run
         /\ sent[k].payload.ref = "refs/heads/head"
         /\ sent[k].payload.sha = base_commit_sha
         /\ sent[k].payload.sha = CommitOf(baseTree)
  /\ r_status = 200 => \A k \in DOMAIN sent : sent[k].target # "git/refs"
  /\ (IsTree /\ dry_run /\ r_status = 404) =>
       /\ sent = <<>>
       /\ ops # <<>>
       /\ ops[1] = [op |-> "create_ref", ref |-> "head", from |-> base_commit_sha]
       /\ base_commit_sha = CommitOf(baseTree)

\* push_branch_via_api created the head ref, which now holds the base's files.
C7_Witness ==
  /\ fn = "push_branch_via_api" /\ sent # <<>>
  /\ sent[1].target = "git/refs" /\ sent[1].status = 201
  /\ headExists /\ baseTree # <<>>

\* C8: the sha sent with a write is the one the head branch stores at that
\* path, and none is sent exactly when the path is absent there.
C8_TokenIsHeadSha ==
  \A k \in DOMAIN sent :
    (sent[k].method = "PUT" /\ otherWrites = 0) => sent[k].token = sent[k].stored

\* C9: a delete that finds its path absent on the existing head branch (404)
\* raises nothing and is recorded with a null result.
C9_DeleteAbsentIsNoop ==
  \A k \in DOMAIN sent :
    (sent[k].method = "DELETE" /\ sent[k].status = 404 /\ headExists
       /\ otherWrites = 0) =>
      /\ pc # "error"
      /\ \E j \in DOMAIN ops :
           ops[j] = [op |-> "delete", path |-> sent[k].path, response |-> None]

Rejected(request) == request.status >= 400

\* The write and delete requests issued, the operations recorded with a
\* response (one per iteration of a publisher's loop that sent a request and
\* went on), and the requests refused.
Writes == {k \in DOMAIN sent : sent[k].target = "contents"}

Written ==
  {j \in DOMAIN ops : ops[j].op # "create_ref" /\ ops[j].response # None}

Refused == {k \in Writes : Rejected(sent[k])}

\* C10: a write or delete whose sha is not the one the head branch stores is
\* rejected; a rejected request is the invocation's last and ends it in
\* error; no accepted request replaced what the other writer stored; each
\* operation is requested once at most: the requests are as many as the
\* operations recorded with a response, plus the refused one.
C10_StaleTokenEndsRun ==
  /\ ~dry_run => Cardinality(Writes) = Cardinality(Written) + Cardinality(Refused)
  /\ \A k \in DOMAIN sent :
      /\ (sent[k].target = "contents" /\ sent[k].token # sent[k].stored)
           => Rejected(sent[k])
      /\ Rejected(sent[k]) => (k = Len(sent) /\ pc = "error")
      /\ (sent[k].target = "contents" /\ ~Rejected(sent[k]))
           => sent[k].stored # git_blob_sha(OtherContent)

\* The other writer changed the file after its lookup; the write was refused
\* and the file holds the other writer's content.
C10_Witness ==
  /\ fn = "push_branch_via_api" /\ pc = "error" /\ otherWrites = 1 /\ sent # <<>>
  /\ LET last == sent[Len(sent)]
     IN /\ last.method = "PUT" /\ last.status = 409
        /\ last.stored = git_blob_sha(OtherContent)
        /\ HeadSha(last.path) = git_blob_sha(OtherContent)

\* The planned operations of push_tree_via_api in the order its loops run.
PlannedPaths == adds \o updates \o deletes

\* The file a request wrote or removed is as the request left it, unless a
\* later request of the run or the other writer touched the path.
EffectInPlace(j) ==
  LET request == sent[j]
      later == \E n \in (j + 1)..Len(sent) :
                 sent[n].target = "contents" /\ sent[n].path = request.path
                   /\ ~Rejected(sent[n])
  IN CASE request.target = "git/refs" -> headExists
       [] later \/ otherWrites > 0 -> TRUE
       [] request.method = "PUT" ->
            HeadSha(request.path) = git_blob_sha(b64decode(request.payload.content))
       [] OTHER -> HeadSha(request.path) = None

\* C11: when a mutating request is rejected the invocation ends in error, it
\* is the last request sent (nothing planned after it is submitted, nothing
\* is undone), and what the acknowledged requests before it did, the created
\* head ref included, is still in place on the remote.
C11_PartialFailure ==
  \A k \in DOMAIN sent :
    Rejected(sent[k]) =>
      /\ pc = "error" /\ k = Len(sent)
      /\ \A j \in 1..(k - 1) : ~Rejected(sent[j]) /\ EffectInPlace(j)
      /\ IsTree =>
           LET first == IF sent[1].target = "git/refs" THEN 1 ELSE 0
           IN /\ k - first <= Len(PlannedPaths)
              /\ \A j \in (first + 1)..k : sent[j].path = PlannedPaths[j - first]

\* The head ref created from the base branch, then the first write refused,
\* with an operation still planned behind it: the ref is there, the second
\* operation was never sent.
C11_Witness ==
  /\ IsTree /\ pc = "error" /\ Len(sent) = 2 /\ otherWrites = 0
  /\ sent[1].target = "git/refs" /\ sent[1].status = 201
  /\ sent[2].target = "contents" /\ Rejected(sent[2])
  /\ Len(PlannedPaths) = 2 /\ sent[2].path = PlannedPaths[1]
  /\ headExists /\ headTree = baseTree /\ baseTree # <<>>

\* C12: in the operations a publisher returns, each path is the target of one
\* add/update/delete operation at most.
C12_OneOpPerPath ==
  \A j, k \in DOMAIN ops :
    (j < k /\ ops[j].op # "create_ref" /\ ops[k].op # "create_ref")
      => ops[j].path # ops[k].path

\* C13: a publisher whose base ref lookup was not answered 200 has no base
\* commit and ends in error there: the head ref is not probed, no mutating
\* request is sent and no operation recorded, under dry_run as well.
C13_BaseRefUnresolved ==
  /\ (base_commit_sha = None /\ pc \notin {"t_base_ref", "b_base_ref"}) =>
       /\ pc = "error"
       /\ r_status = 0 /\ sent = <<>> /\ ops = <<>>
       /\ remote_map = <<>> /\ actions = <<>>
  /\ (r_status # 0 \/ sent # <<>> \/ ops # <<>>) =>
       base_commit_sha = CommitOf(baseTree)

\* A dry run of push_tree_via_api that failed on the base ref, the head
\* branch being absent.
C13_Witness ==
  /\ IsTree /\ dry_run /\ pc = "error" /\ base_commit_sha = None
  /\ ~headExists /\ DOMAIN localFiles # {}

IsBranch == fn = "push_branch_via_api"

\* C14: push_branch_via_api reads a content lookup as "absent" only when the
\* path is absent (404): the delete it has just recorded as already done is
\* of a path the head branch lacks, and a write it sends without a sha is to
\* a path the head branch lacks (no other writer acting).
C14_OnlyNotFoundMeansAbsent ==
  (IsBranch /\ otherWrites = 0) =>
    /\ (ops # <<>> /\ ops[Len(ops)].op = "delete"
          /\ ops[Len(ops)].response = None)
         => HeadSha(ops[Len(ops)].path) = None
    /\ \A k \in DOMAIN sent :
         (sent[k].method = "PUT" /\ sent[k].token = None)
           => sent[k].stored = None

\* C17: what push_branch_via_api writes to a path is the bytes of the local
\* file at that path; an add whose local file is missing ends the run in
\* error at the file check, and no write to that path is sent.
C17_AddReadsLocalFile ==
  IsBranch =>
    /\ \A k \in DOMAIN sent :
         sent[k].method = "PUT" =>
           /\ sent[k].path \in DOMAIN localFiles
           /\ sent[k].payload.content = b64encode(localFiles[sent[k].path])
    /\ (actions # <<>> /\ actions[1][1] = "add"
          /\ actions[1][2] \notin DOMAIN localFiles) =>
         /\ pc \in {"b_lookup", "error"}
         /\ q = None
         /\ \A k \in DOMAIN sent : sent[k].path # actions[1][2]
                                      \/ sent[k].method # "PUT"

\* One file written from the working tree, then an add of a path with no
\* local file: the run ended in error after the one write.
C17_Witness ==
  /\ IsBranch /\ pc = "error" /\ actions # <<>>
  /\ actions[1][1] = "add" /\ actions[1][2] \notin DOMAIN localFiles
  /\ Len(sent) = 1 /\ sent[1].method = "PUT" /\ sent[1].status = 201
  /\ HeadSha(sent[1].path) = git_blob_sha(localFiles[sent[1].path])

\* The line of name_status last read (cursor > 0).
LineRead == CHOOSE parts \in Range(name_status) : Subject(parts) = cursor

Letter(parts) == parts[1][1]

\* C15: a line R<score> old new is carried out as a delete of old and then an
\* add of new, for every score: while the line is being worked on, what is
\* left of it and what has been recorded of it make up that pair in that
\* order; the only requests are POST git/refs and PUT / DELETE contents.
C15_RenameIsDeleteThenAdd ==
  /\ \A k \in DOMAIN sent :
       \/ sent[k].target = "git/refs" /\ sent[k].method = "POST"
       \/ sent[k].target = "contents" /\ sent[k].method \in {"PUT", "DELETE"}
  /\ (IsBranch /\ cursor > 0 /\ Letter(LineRead) = "R") =>
       LET old == LineRead[2]
           new == LineRead[3]
           n == Len(ops)
       IN CASE Len(actions) = 2 ->
                 actions = <<<<"delete", old>>, <<"add", new>>>>
            [] Len(actions) = 1 ->
                 /\ actions = <<<<"add", new>>>>
                 /\ n >= 1 /\ ops[n].op = "delete" /\ ops[n].path = old
            [] OTHER ->
                 /\ n >= 2
                 /\ ops[n - 1].op = "delete" /\ ops[n - 1].path = old
                 /\ ops[n].op = "add_or_update" /\ ops[n].path = new

\* A rename of score 75 was the whole output: the old path was deleted on
\* the head branch, then the new one written.
C15_Witness ==
  /\ IsBranch /\ pc = "done" /\ Len(name_status) = 1
  /\ name_status[1][1] = <<"R", 75>>
  /\ Len(sent) = 2
  /\ sent[1].method = "DELETE" /\ sent[1].path = name_status[1][2]
  /\ sent[1].status = 200
  /\ sent[2].method = "PUT" /\ sent[2].path = name_status[1][3]
  /\ sent[2].status = 201

\* C16: a copy line C<score> src dst is carried out too: a run that returns
\* has added the destination on the head branch.
C16_CopyAddsDestination ==
  (IsBranch /\ pc = "done") =>
    \A n \in DOMAIN name_status :
      Letter(name_status[n]) = "C" =>
        \E k \in DOMAIN ops :
          ops[k].op = "add_or_update" /\ ops[k].path = name_status[n][3]

IsDiff == fn = "get_git_diff"

\* C18: get_git_diff returns only when git diff succeeded, that is exited 0
\* or with the 1 of "differences found"; a diff that failed is an error to
\* the caller, never a returned diff, an empty one least of all.
C18_DiffFailureSurfaces ==
  (IsDiff /\ pc = "done") => diff_returncode \in {0, 1}

\* Whether text a is a prefix of text b.
IsPrefix(a, b) == Len(a) <= Len(b) /\ a = SubSeq(b, 1, Len(a))

\* C19: a diff of more than max_bytes bytes is returned as a prefix of whole
\* characters of at most max_bytes bytes, with a note giving the diff's size
\* in bytes; a shorter one is returned as it is.
C19_TruncationOnBoundary ==
  (IsDiff /\ pc = "done") =>
    IF Len(encode(diff)) > max_bytes
    THEN /\ IsPrefix(result.text, diff)
         /\ Len(encode(result.text)) <= max_bytes
         /\ result.note # None
         /\ result.note[2] = Len(encode(diff))
    ELSE result = [text |-> diff, note |-> None]

IsPR == fn = "create_pull_request"

\* C20: create_pull_request with dry_run=True sends no request, with a token
\* or without one; the lack of a token is no error to it; what it returns is
\* the payload composed and the branch URL made of the repository name and
\* the head name, with no response.
C20_DryRunPRNoNetwork ==
  (IsPR /\ dry_run) =>
    /\ sent = <<>> /\ pc # "p_post"
    /\ pc = "error" => (exc = "ValueError" /\ ~HasSlash(repo_full_name))
    /\ pc = "done" =>
         /\ result.branch_url
              = <<"https://github.com/", repo_full_name, "/tree/", head>>
         /\ result.payload.head = head /\ result.payload.base = base
         /\ result.payload.draft = draft
         /\ result.url = None /\ result.pr_url = None /\ result.response = None

\* A dry run without any token returned the payload and the branch URL.
C20_Witness ==
  /\ IsPR /\ dry_run /\ pc = "done" /\ token = None /\ env_token = None
  /\ sent = <<>>
  /\ result.branch_url = <<"https://github.com/", <<"owner", "/", "repo">>,
                            "/tree/", "issue_1">>

\* C21: every answer of the POST whose status lies outside 200..299, a 3xx as
\* well as a 4xx or a 5xx, ends create_pull_request with the HTTPError that
\* carries the status and the body, and no result is returned.
C21_NonSuccessFails ==
  (IsPR /\ sent # <<>> /\ sent[1].status \notin 200..299) =>
    (pc = "error" /\ exc = "HTTPError" /\ result = None)

\* C22: the title of the payload, in the request a live call sends and in
\* the result either mode returns, is "Automated PR: <head> -> <base>" made
\* of the call's own head and base when no title is given (None, or the
\* empty string, which `or` takes for none), and the given title unchanged
\* otherwise.
C22_TitleDefaultOrGiven ==
  LET expected == IF title = None \/ title = <<"">>
                  THEN <<"Automated PR: ", head, " -> ", base>>
                  ELSE title
  IN IsPR =>
       /\ \A k \in DOMAIN sent : sent[k].payload.title = expected
       /\ pc = "done" => result.payload.title = expected

\* The test's call: head issue_1, base main, no title, sent with the
\* synthesized title.
C22_Witness ==
  /\ IsPR /\ ~dry_run /\ pc = "done" /\ title = None
  /\ head = "issue_1" /\ base = "main"
  /\ sent[1].payload.title = <<"Automated PR: ", "issue_1", " -> ", "main">>

IsParse == fn = "parse_repo_full_name"

\* C25: parse_repo_full_name returns owner/repo for owner/repo itself, for
\* https://<host>/<owner>/<repo> with or without .git and for
\* git@<host>:<owner>/<repo>.git, whatever the host, the owner and the
\* repository are; it fails on the empty string and on an input of none of
\* these shapes.
C25_ParseIsLeftInverse ==
  (IsParse /\ pc # "r_parse") =>
    /\ \A host \in Hosts, owner \in Owners, repo \in Repos :
         (\/ repo_url = OwnerRepo(owner, repo)
          \/ repo_url = HttpsUrl(host, owner, repo, TRUE)
          \/ repo_url = HttpsUrl(host, owner, repo, FALSE)
          \/ repo_url = SshUrl(host, owner, repo, TRUE))
           => (pc = "done" /\ repo_full_name = OwnerRepo(owner, repo))
    /\ repo_url \in {<<>>} \cup NoShape => (pc = "error" /\ exc = "ValueError")

IsFromGit == fn = "create_pr_from_git"

\* create_pr_from_git has the diff and has acted on it.
Decided == IsFromGit /\ result # None /\ pc \notin {"g_truncate", "f_strip"}

\* The diff git wrote is empty or white space only.
BlankDiff == \A n \in DOMAIN diff : diff[n] = " "

\* create_pull_request was called: the body made for it is there.
Called == pr_body # None

\* C24 as stated: once create_pr_from_git has the diff, it returns the 'no
\* changes' sentinel without calling create_pull_request, not even for the
\* payload of a dry run, when the diff is empty or white space only, and a
\* pull request is created in every other case.
C24_PRIffChanges ==
  Decided =>
    /\ BlankDiff =>
         (pc = "done" /\ result = NoChanges /\ ~Called /\ sent = <<>>)
    /\ ~BlankDiff =>
         /\ Called
         /\ pc \in {"done", "error"} =>
              \E k \in DOMAIN sent :
                sent[k].target = "pulls" /\ sent[k].status = 201

\* C24 amended: with an empty or white-space-only diff create_pr_from_git
\* returns the sentinel and create_pull_request is not called nor anything
\* sent; with any other diff it parses repo_url, fails with the ValueError
\* when that does not parse, and otherwise calls create_pull_request with
\* the parsed name, the given body or the synthesized one, and the dry_run
\* flag: the payload is returned unsent under dry_run, and posted otherwise.
C24_CallIffChanges ==
  Decided =>
    /\ BlankDiff =>
         (pc = "done" /\ result = NoChanges /\ ~Called /\ sent = <<>>)
    /\ (~BlankDiff /\ repo_url \in {HttpsUrl("gitlab.com", <<"owner">>, <<"repo">>, TRUE),
                                   <<"not-a-valid-url">>}) =>
         (pc = "error" /\ exc = "ValueError" /\ ~Called /\ sent = <<>>)
    /\ (~BlankDiff /\ repo_url \in {OwnerRepo(<<"owner">>, <<"repo">>),
                                   HttpsUrl("github.com", <<"owner">>, <<"repo">>, TRUE)}) =>
         /\ Called
         /\ repo_full_name = <<"owner", "/", "repo">>
         /\ body # None => pr_body = body
         /\ (pc = "done" /\ dry_run) =>
              (sent = <<>> /\ result.payload.body = pr_body
                 /\ result.payload.head = head)
         /\ (pc = "done" /\ ~dry_run) =>
              (Len(sent) = 1 /\ sent[1].target = "pulls"
                 /\ sent[1].payload.body = pr_body)

\* A white-space-only diff answered with the sentinel, nothing sent.
C24_Witness ==
  /\ IsFromGit /\ pc = "done" /\ result = NoChanges
  /\ diff # <<>> /\ BlankDiff /\ sent = <<>> /\ ~Called

IsMain == fn = "main"

\* C23: when the script opens the pull request with no body given, after a
\* publish that applied operations, the body of the request names the kind
\* and the path of every operation the publish applied.
C23_BodyListsOperations ==
  (IsMain /\ body = None) =>
    \A k \in DOMAIN sent :
      sent[k].target = "pulls" =>
        \A n \in DOMAIN ops :
          \E m \in DOMAIN sent[k].payload.body :
            sent[k].payload.body[m] = <<ops[n].op, ops[n].path>>

\* C26: the life of a path in a publisher's run.  Under dry_run no write or
\* delete request is ever submitted.  In a live run an operation is among the
\* operations returned with a response only when its request was submitted
\* and acknowledged (a delete of a path the lookup found absent is recorded
\* with no response and no request).  A path whose request was answered,
\* acknowledged or refused, gets no further request: there is one request
\* per path at most.
C26_PathLifecycle ==
  /\ dry_run => Writes = {}
  /\ ~dry_run =>
       \A j \in DOMAIN ops :
         (ops[j].op # "create_ref" /\ ops[j].response # None) =>
           \E k \in Writes :
             /\ sent[k].path = ops[j].path
             /\ KindOf(sent[k].method) = ops[j].op
             /\ ~Rejected(sent[k])
  /\ \A j, k \in Writes : j # k => sent[j].path # sent[k].path

\* s is in ascending path order.
Ascending(s) == \A a, b \in DOMAIN s : a < b => s[a] < s[b]

\* C27: the operations push_tree_via_api plans are determined by the local
\* and remote maps alone: whatever the order in which the file system walk
\* and the tree listing enumerated the paths, the paths are planned in the
\* same order, ascending within the adds, the updates and the deletes.
C27_PlanOrderDetermined ==
  Planned => (Ascending(adds) /\ Ascending(updates) /\ Ascending(deletes))

\* C28: in both publishers a content write or delete is requested only after
\* the head ref probe was answered 200 or the request creating the ref was
\* acknowledged; a probe answered with anything but 200 or 404 ends the
\* invocation in error.
C28_WritesNeedHeadRef ==
  /\ \A k \in Writes :
       \/ r_status = 200
       \/ \E j \in 1..(k - 1) :
            sent[j].target = "git/refs" /\ ~Rejected(sent[j])
  /\ r_status \notin {0, 200, 404} => pc = "error"

\* C29: when the name-status comparison of push_branch_via_api fails, the
\* invocation ends in error having issued no mutating request to the remote:
\* in particular it has created no head ref.
C29_NameStatusFailureIsClean ==
  [][(IsBranch /\ pc = "b_name_status" /\ pc' = "error")
       => (sent' = <<>> /\ (r_status = 404 => ~headExists'))]_vars

\* The positions of main inside push_branch_via_api.
Publishing ==
  {"b_base_ref", "b_probe", "b_create_ref", "b_name_status", "b_line",
   "b_lookup", "b_write"}

\* C30: main runs its steps in the order checkout, commit, publish, pull
\* request.  A failing step ends the run with its own exit status (2, 3, 4)
\* and no later step is started: in particular the pull request is not
\* requested after a failed publish.  The run ends with status 0 only when
\* every step it ran succeeded: no request it sent was answered outside
\* 200..299.
C30_StepsInOrder ==
  [][IsMain =>
       /\ pc = "m_checkout" =>
            (pc' = "m_commit" \/ (pc' = "exit" /\ rc' = 2))
       /\ pc = "m_commit" =>
            \/ pc' = (IF no_push THEN "m_pr" ELSE "b_base_ref")
            \/ (pc' = "exit" /\ rc' = 3)
       /\ pc \in Publishing =>
            \/ pc' \in Publishing \cup {"m_pr"}
            \/ (pc' = "exit" /\ rc' = 4)
       /\ pc = "m_pr" => pc' = "exit"
       /\ pc' \notin {"m_pr", "exit"} =>
            \A k \in DOMAIN sent' : sent'[k].target # "pulls"
       /\ pc \in {"m_checkout", "m_commit"} => sent' = <<>>
       /\ (pc' = "exit" /\ pc # "m_pr") =>
            \A k \in DOMAIN sent' : sent'[k].target # "pulls"
       /\ (pc' = "exit" /\ rc' = 0) =>
            /\ pc = "m_pr"
            /\ \A k \in DOMAIN sent' : sent'[k].status \in 200..299]_vars

====
